---- MODULE Spec2Model ----
(***************************************************************************)
(* Model of the interactive measurement tool of the map dashboard          *)
(* (src/components/MapWrapper.tsx, components MapWrapper and MapControls). *)
(*                                                                         *)
(* The state is the React state of the two components (measureMode,        *)
(* distanceUnit, areaUnit, isMeasurePanelOpen, points), the refs of        *)
(* MapControls (pointsRef, measureLayersRef, tempLayerRef, tooltipRef) and *)
(* the values captured by the closures of the last committed render, with  *)
(* the number of handler sets registered on the map and the numbers of     *)
(* preview layers and tooltips the map carries.                            *)
(* Every input handler is one action.  The state updates a handler queues  *)
(* are rendered by Commit, which runs the effect cleanups and the effects  *)
(* whose dependencies changed; React flushes that work before the next     *)
(* input event is delivered, so the handlers are enabled in settled states *)
(* only.  A click on a feature of a GeoJSON layer is an input as well: it  *)
(* runs the click handler of the feature when the layer was created with   *)
(* one, and reaches the map otherwise.                                     *)
(***************************************************************************)
EXTENDS Integers, Sequences, FiniteSets, TLC

\* ---------------------------------------------------------------- bounds
\* Largest number of captured points explored (the code has no bound).
MaxPoints == 4

\* Positions the pointer events carry, as <<lat, lng>> grid steps.
Points == {<<0, 0>>, <<0, 1>>, <<1, 0>>}

\* Ground length of one grid step in metres (planar stand-in for turf).
GridStep == 10

Modes == {"distance", "area"}

\* ---------------------------------------------------------- unit registry
\* conversion = num / den, format = toFixed(dec) followed by the symbol.
DISTANCE_UNITS ==
  [m  |-> [num |-> 1,      den |-> 1,          dec |-> 0],
   km |-> [num |-> 1,      den |-> 1000,       dec |-> 2],
   ft |-> [num |-> 328084, den |-> 100000,     dec |-> 0],
   mi |-> [num |-> 621371, den |-> 1000000000, dec |-> 2]]

AREA_UNITS ==
  [m2    |-> [num |-> 1,      den |-> 1,          dec |-> 0],
   km2   |-> [num |-> 1,      den |-> 1000000,    dec |-> 3],
   ha    |-> [num |-> 1,      den |-> 10000,      dec |-> 3],
   ft2   |-> [num |-> 107639, den |-> 10000,      dec |-> 0],
   acres |-> [num |-> 247105, den |-> 1000000000, dec |-> 3]]

DistanceUnit == DOMAIN DISTANCE_UNITS
AreaUnit == DOMAIN AREA_UNITS

Pow10(n) == IF n = 0 THEN 1 ELSE IF n = 1 THEN 10 ELSE IF n = 2 THEN 100 ELSE 1000

\* Nearest integer to a / b (a >= 0, b > 0), halves away from zero.
RoundDiv(a, b) == (2 * a + b) \div (2 * b)

\* Variant: the digits after the last kept decimal are cut off.
ToFixed_Truncates(raw, cfg, sym) ==
  [val  |-> (raw * cfg.num) \div (cfg.den \div Pow10(cfg.dec)),
   dec  |-> cfg.dec,
   unit |-> sym]

\* A formatted label: the digits of toFixed(dec) as an integer scaled by
\* 10^dec, and the unit symbol that follows them.
ToFixed(raw, cfg, sym) ==
  [val  |-> RoundDiv(raw * cfg.num, cfg.den \div Pow10(cfg.dec)),
   dec  |-> cfg.dec,
   unit |-> sym]

formatDistance(meters, unit) == ToFixed(meters, DISTANCE_UNITS[unit], unit)

formatArea(sqMeters, unit) == ToFixed(sqMeters, AREA_UNITS[unit], unit)

\* ------------------------------------------------------ geometry (turf)
Abs(x) == IF x < 0 THEN -x ELSE x

Isqrt(x) == CHOOSE r \in 0..(x + 1) : r * r <= x /\ (r + 1) * (r + 1) > x

SegLen(p, q) ==
  Isqrt(GridStep * GridStep *
        ((p[1] - q[1]) * (p[1] - q[1]) + (p[2] - q[2]) * (p[2] - q[2])))

RECURSIVE turfLength(_)
turfLength(pts) ==
  IF Len(pts) < 2 THEN 0
  ELSE SegLen(pts[1], pts[2]) + turfLength(Tail(pts))

RECURSIVE RingSum(_)
RingSum(ring) ==
  IF Len(ring) < 2 THEN 0
  ELSE (ring[1][2] * ring[2][1] - ring[2][2] * ring[1][1]) + RingSum(Tail(ring))

\* Variant: the ring is not closed back to its first point.
turfArea_OpenRing(pts) ==
  IF Len(pts) < 3 THEN 0
  ELSE (Abs(RingSum(pts)) * GridStep * GridStep) \div 2

\* Area of the ring closed back to its first point, never negative.
turfArea(pts) ==
  IF Len(pts) < 3 THEN 0
  ELSE (Abs(RingSum(Append(pts, pts[1]))) * GridStep * GridStep) \div 2

\* ------------------------------------------------------------------ state
VARIABLES
  measureMode,        \* MapWrapper state: "none" | "distance" | "area"
  distanceUnit,       \* MapWrapper state
  areaUnit,           \* MapWrapper state
  isMeasurePanelOpen, \* MapControls state
  points,             \* MapControls state (value of the latest setPoints)
  pointsRef,          \* pointsRef.current
  finalShapes,        \* measureLayersRef: finalized shapes with their labels
  markers,            \* measureLayersRef: circle markers of the render effect
  progressShape,      \* measureLayersRef: solid line/polygon of the render effect
  tempLayer,          \* tempLayerRef.current (dashed preview on the map)
  tooltip,            \* tooltipRef.current (floating tooltip on the map)
  mapLayers,          \* numbers of preview layers and tooltips added to the map
  rMode,              \* measureMode captured by the registered map handlers
  rDistanceUnit,      \* distanceUnit captured by the registered map handlers
  rAreaUnit,          \* areaUnit captured by the registered map handlers
  pointsDirty,        \* setPoints was called since the last render
  handlers,           \* number of handler sets registered with map.on
  isMeasuring,        \* isMeasuring the GeoJSON layers on the map were created with
  lastOp,             \* the input handler that ran last
  lastLen             \* pointsRef.current.length when that handler started

vars == <<measureMode, distanceUnit, areaUnit, isMeasurePanelOpen, points,
          pointsRef, finalShapes, markers, progressShape, tempLayer, tooltip,
          mapLayers,
          rMode, rDistanceUnit, rAreaUnit, pointsDirty, handlers, isMeasuring,
          lastOp, lastLen>>

NoLayer == [kind |-> "none"]

InitialTooltip(latlng, mode) ==
  [kind |-> "initial", latlng |-> latlng, mode |-> mode]

\* Every queued state update has been rendered and its effects have run.
Settled ==
  /\ ~pointsDirty
  /\ rMode = measureMode
  /\ rDistanceUnit = distanceUnit
  /\ rAreaUnit = areaUnit

Init ==
  /\ measureMode = "none"
  /\ distanceUnit = "m"
  /\ areaUnit = "m2"
  /\ isMeasurePanelOpen = FALSE
  /\ points = <<>>
  /\ pointsRef = <<>>
  /\ finalShapes = <<>>
  /\ markers = <<>>
  /\ progressShape = "none"
  /\ tempLayer = NoLayer
  /\ tooltip = NoLayer
  /\ mapLayers = [temp |-> 0, tooltip |-> 0]
  /\ rMode = "none"
  /\ rDistanceUnit = "m"
  /\ rAreaUnit = "m2"
  /\ pointsDirty = FALSE
  /\ handlers = 0
  /\ isMeasuring = FALSE
  /\ lastOp = "init"
  /\ lastLen = 0

\* -------------------------------------------------------------- callbacks
\* Variant: the tooltip is removed whatever the mode.
ClearedTooltip_Removes(tt, mode) == NoLayer

\* What clearInProgressMeasurement leaves in tooltipRef, for a closure that
\* captured the given mode.
ClearedTooltip(tt, mode) ==
  IF tt.kind = "none" THEN tt
  ELSE IF mode # "none" THEN InitialTooltip(tt.latlng, mode)
  ELSE NoLayer

\* Layers map.removeLayer takes off the map for a ref: its layer, if it has one.
Removed(layer) == IF layer # NoLayer THEN 1 ELSE 0

\* Variant: the dashed preview layer is left on the map.
clearInProgressMeasurement_KeepsPreview(mode) ==
  /\ pointsRef' = <<>>
  /\ points' = <<>>
  /\ pointsDirty' = TRUE
  /\ tempLayer' = tempLayer
  /\ tooltip' = ClearedTooltip(tooltip, mode)
  /\ mapLayers' = [mapLayers EXCEPT
       !.tooltip = @ - (IF ClearedTooltip(tooltip, mode) = NoLayer
                        THEN Removed(tooltip) ELSE 0)]

clearInProgressMeasurement(mode) ==
  /\ pointsRef' = <<>>
  /\ points' = <<>>
  /\ pointsDirty' = TRUE
  /\ tempLayer' = NoLayer
  /\ tooltip' = ClearedTooltip(tooltip, mode)
  /\ mapLayers' = [temp    |-> mapLayers.temp - Removed(tempLayer),
                   tooltip |-> mapLayers.tooltip
                                 - (IF ClearedTooltip(tooltip, mode) = NoLayer
                                    THEN Removed(tooltip) ELSE 0)]

\* Variant: every point that repeats its predecessor is dropped.
RECURSIVE pointsToUse_AllDuplicates(_)
pointsToUse_AllDuplicates(finalPoints) ==
  IF Len(finalPoints) < 2 THEN finalPoints
  ELSE IF finalPoints[1] = finalPoints[2]
       THEN pointsToUse_AllDuplicates(Tail(finalPoints))
       ELSE <<finalPoints[1]>> \o pointsToUse_AllDuplicates(Tail(finalPoints))

\* Variant: no duplicate is dropped.
pointsToUse_NoDedupe(finalPoints) == finalPoints

\* The point list finalizeMeasurement works on: the last point is dropped
\* when it equals the one before it.
pointsToUse(finalPoints) ==
  IF Len(finalPoints) > 1
     /\ finalPoints[Len(finalPoints)] = finalPoints[Len(finalPoints) - 1]
  THEN SubSeq(finalPoints, 1, Len(finalPoints) - 1)
  ELSE finalPoints

minPoints(mode) == IF mode = "distance" THEN 2 ELSE 3

\* Variant: the label is always formatted in the base unit.
measurementText_BaseUnit(mode, pts, dUnit, aUnit) ==
  IF mode = "distance" THEN formatDistance(turfLength(pts), "m")
  ELSE formatArea(turfArea(pts), "m2")

measurementText(mode, pts, dUnit, aUnit) ==
  IF mode = "distance" THEN formatDistance(turfLength(pts), dUnit)
  ELSE formatArea(turfArea(pts), aUnit)

\* Variant: the minimum is compared with the count before the dedupe.
finalizeAccepts_RawCount(mode, finalPoints) ==
  /\ mode # "none"
  /\ ~(mode = "distance" /\ Len(finalPoints) < 2)
  /\ ~(mode = "area" /\ Len(finalPoints) < 3)

\* Variant: a measurement whose value is 0 is refused.
finalizeAccepts_RejectsZero(mode, finalPoints) ==
  /\ mode # "none"
  /\ ~(mode = "distance" /\ Len(pointsToUse(finalPoints)) < 2)
  /\ ~(mode = "area" /\ Len(pointsToUse(finalPoints)) < 3)
  /\ IF mode = "distance" THEN turfLength(pointsToUse(finalPoints)) > 0
     ELSE turfArea(pointsToUse(finalPoints)) > 0

\* Whether finalizeMeasurement gets past its early returns.
finalizeAccepts(mode, finalPoints) ==
  /\ mode # "none"
  /\ ~(mode = "distance" /\ Len(pointsToUse(finalPoints)) < 2)
  /\ ~(mode = "area" /\ Len(pointsToUse(finalPoints)) < 3)

finalizeMeasurement(mode, finalPoints, dUnit, aUnit) ==
  IF finalizeAccepts(mode, finalPoints)
  THEN /\ finalShapes' = Append(finalShapes,
            [mode  |-> mode,
             pts   |-> pointsToUse(finalPoints),
             label |-> measurementText(mode, pointsToUse(finalPoints), dUnit, aUnit)])
       /\ clearInProgressMeasurement(mode)
       /\ UNCHANGED <<markers, progressShape>>
  ELSE UNCHANGED <<finalShapes, markers, progressShape, pointsRef, points,
                   pointsDirty, tempLayer, tooltip, mapLayers>>

\* Variant: only the layer group is cleared.
clearAllMeasurements_LayersOnly(mode) ==
  /\ finalShapes' = <<>>
  /\ markers' = <<>>
  /\ progressShape' = "none"
  /\ UNCHANGED <<pointsRef, points, pointsDirty, tempLayer, tooltip, mapLayers>>

clearAllMeasurements(mode) ==
  /\ finalShapes' = <<>>
  /\ markers' = <<>>
  /\ progressShape' = "none"
  /\ clearInProgressMeasurement(mode)

\* Variant: the mode is switched without clearing.
startMeasure_KeepsPoints(mode) ==
  /\ measureMode' = mode
  /\ UNCHANGED <<finalShapes, markers, progressShape, pointsRef, points,
                 pointsDirty, tempLayer, tooltip, mapLayers>>

startMeasure(mode) ==
  /\ clearAllMeasurements(measureMode)
  /\ measureMode' = mode

\* ------------------------------------------------------- panel handlers
\* Variant: closing the panel clears but keeps the mode.
toggleMeasurePanel_KeepsMode ==
  /\ Settled
  /\ IF isMeasurePanelOpen
     THEN /\ clearAllMeasurements(measureMode)
          /\ lastOp' = "deactivate"
          /\ lastLen' = Len(pointsRef)
     ELSE /\ lastOp' = "openPanel"
          /\ lastLen' = Len(pointsRef)
          /\ UNCHANGED <<finalShapes, markers, progressShape,
                         pointsRef, points, pointsDirty, tempLayer, tooltip, mapLayers>>
  /\ isMeasurePanelOpen' = ~isMeasurePanelOpen
  /\ UNCHANGED <<measureMode, distanceUnit, areaUnit, rMode, rDistanceUnit, rAreaUnit, handlers, isMeasuring>>

toggleMeasurePanel ==
  /\ Settled
  /\ IF isMeasurePanelOpen
     THEN /\ clearAllMeasurements(measureMode)
          /\ measureMode' = "none"
          /\ lastOp' = "deactivate"
          /\ lastLen' = Len(pointsRef)
     ELSE /\ lastOp' = "openPanel"
          /\ lastLen' = Len(pointsRef)
          /\ UNCHANGED <<measureMode, finalShapes, markers, progressShape,
                         pointsRef, points, pointsDirty, tempLayer, tooltip, mapLayers>>
  /\ isMeasurePanelOpen' = ~isMeasurePanelOpen
  /\ UNCHANGED <<distanceUnit, areaUnit, rMode, rDistanceUnit, rAreaUnit, handlers, isMeasuring>>

\* Variant: the button of the active mode switches the tool off.
handleMeasureButtonClick_TogglesOff(mode) ==
  /\ Settled
  /\ isMeasurePanelOpen
  /\ IF measureMode = mode
     THEN /\ clearAllMeasurements(measureMode)
          /\ measureMode' = "none"
          /\ lastOp' = "buttonFinalize"
          /\ lastLen' = Len(pointsRef)
     ELSE /\ startMeasure(mode)
          /\ lastOp' = "activate"
          /\ lastLen' = Len(pointsRef)
  /\ UNCHANGED <<distanceUnit, areaUnit, isMeasurePanelOpen, rMode,
                 rDistanceUnit, rAreaUnit, handlers, isMeasuring>>

handleMeasureButtonClick(mode) ==
  /\ Settled
  /\ isMeasurePanelOpen
  /\ IF measureMode = mode
     THEN /\ IF Len(pointsRef) >= minPoints(mode)
             THEN /\ finalizeMeasurement(measureMode, pointsRef, distanceUnit, areaUnit)
                  /\ lastOp' = "buttonFinalize"
                  /\ lastLen' = Len(pointsRef)
             ELSE /\ lastOp' = "buttonIgnored"
                  /\ lastLen' = Len(pointsRef)
                  /\ UNCHANGED <<finalShapes, markers, progressShape, pointsRef,
                                 points, pointsDirty, tempLayer, tooltip, mapLayers>>
          /\ UNCHANGED measureMode
     ELSE /\ startMeasure(mode)
          /\ lastOp' = "activate"
          /\ lastLen' = Len(pointsRef)
  /\ UNCHANGED <<distanceUnit, areaUnit, isMeasurePanelOpen, rMode,
                 rDistanceUnit, rAreaUnit, handlers, isMeasuring>>

clearAllButton ==
  /\ Settled
  /\ isMeasurePanelOpen
  /\ clearAllMeasurements(measureMode)
  /\ lastOp' = "clearAll"
  /\ lastLen' = Len(pointsRef)
  /\ UNCHANGED <<measureMode, distanceUnit, areaUnit, isMeasurePanelOpen,
                 rMode, rDistanceUnit, rAreaUnit, handlers, isMeasuring>>

\* Variant: the key is always stored as the distance unit.
unitSelectorClick_AlwaysDistance(key) ==
  /\ Settled
  /\ isMeasurePanelOpen
  /\ measureMode # "none"
  /\ key \in (IF measureMode = "distance" THEN DistanceUnit ELSE AreaUnit)
  /\ distanceUnit' = key
  /\ lastOp' = "setUnit"
  /\ lastLen' = Len(pointsRef)
  /\ UNCHANGED <<measureMode, areaUnit, isMeasurePanelOpen, points, pointsRef,
                 finalShapes, markers, progressShape, tempLayer, tooltip, mapLayers,
                 rMode, rDistanceUnit, rAreaUnit, pointsDirty, handlers, isMeasuring>>

\* onClick of an entry of the unit selector; the entries are the keys of the
\* table of the active mode.
unitSelectorClick(key) ==
  /\ Settled
  /\ isMeasurePanelOpen
  /\ measureMode # "none"
  /\ IF measureMode = "distance"
     THEN /\ key \in DistanceUnit
          /\ distanceUnit' = key
          /\ UNCHANGED areaUnit
     ELSE /\ key \in AreaUnit
          /\ areaUnit' = key
          /\ UNCHANGED distanceUnit
  /\ lastOp' = "setUnit"
  /\ lastLen' = Len(pointsRef)
  /\ UNCHANGED <<measureMode, isMeasurePanelOpen, points, pointsRef,
                 finalShapes, markers, progressShape, tempLayer, tooltip, mapLayers,
                 rMode, rDistanceUnit, rAreaUnit, pointsDirty, handlers, isMeasuring>>

\* --------------------------------------------------------- map handlers
\* Variant: the pointer position is pushed onto the captured points.
handleMouseMove_Appends(latlng) ==
  /\ Settled
  /\ handlers > 0
  /\ Len(pointsRef) < MaxPoints
  /\ pointsRef' = Append(pointsRef, latlng)
  /\ tooltip' = IF tooltip.kind # "none"
                THEN [tooltip EXCEPT !.latlng = latlng]
                ELSE InitialTooltip(latlng, rMode)
  /\ mapLayers' = [mapLayers EXCEPT !.tooltip = @ + 1 - Removed(tooltip)]
  /\ lastOp' = "moveCursor"
  /\ lastLen' = Len(pointsRef)
  /\ UNCHANGED <<measureMode, distanceUnit, areaUnit, isMeasurePanelOpen,
                 points, finalShapes, markers, progressShape, tempLayer,
                 rMode, rDistanceUnit, rAreaUnit, pointsDirty, handlers, isMeasuring>>

\* Variant: an area value is shown as soon as the ring has two points.
handleMouseMove_AreaFromTwo(latlng) ==
  /\ Settled
  /\ handlers > 0
  /\ LET allPoints == Append(pointsRef, latlng)
         value == IF rMode = "distance"
                  THEN formatDistance(turfLength(allPoints), rDistanceUnit)
                  ELSE formatArea(turfArea(allPoints), rAreaUnit)
     IN IF Len(pointsRef) > 0
        THEN /\ tempLayer' =
                  IF rMode = "distance"
                  THEN [kind |-> "polyline", pts |-> <<pointsRef[Len(pointsRef)], latlng>>]
                  ELSE [kind |-> "polygon", pts |-> allPoints]
             /\ tooltip' = [kind |-> "value", latlng |-> latlng, label |-> value]
        ELSE /\ tooltip' = IF tooltip.kind # "none"
                           THEN [tooltip EXCEPT !.latlng = latlng]
                           ELSE InitialTooltip(latlng, rMode)
             /\ UNCHANGED tempLayer
  /\ mapLayers' =
       [temp    |-> IF Len(pointsRef) > 0
                    THEN mapLayers.temp - Removed(tempLayer) + 1
                    ELSE mapLayers.temp,
        tooltip |-> mapLayers.tooltip + 1 - Removed(tooltip)]
  /\ lastOp' = "moveCursor"
  /\ lastLen' = Len(pointsRef)
  /\ UNCHANGED <<measureMode, distanceUnit, areaUnit, isMeasurePanelOpen,
                 points, pointsRef, finalShapes, markers, progressShape,
                 rMode, rDistanceUnit, rAreaUnit, pointsDirty, handlers, isMeasuring>>

\* Variant: the previous preview layer is not removed before the next one is
\* added.
handleMouseMove_KeepsOldPreview(latlng) ==
  /\ Settled
  /\ handlers > 0
  /\ LET allPoints == Append(pointsRef, latlng)
         value == IF rMode = "distance"
                  THEN formatDistance(turfLength(allPoints), rDistanceUnit)
                  ELSE formatArea(turfArea(allPoints), rAreaUnit)
     IN IF Len(pointsRef) > 0
        THEN /\ tempLayer' =
                  IF rMode = "distance"
                  THEN [kind |-> "polyline", pts |-> <<pointsRef[Len(pointsRef)], latlng>>]
                  ELSE [kind |-> "polygon", pts |-> allPoints]
             /\ tooltip' =
                  IF rMode = "distance" \/ Len(allPoints) > 2
                  THEN [kind |-> "value", latlng |-> latlng, label |-> value]
                  ELSE [kind |-> "more", latlng |-> latlng]
        ELSE /\ tooltip' = IF tooltip.kind # "none"
                           THEN [tooltip EXCEPT !.latlng = latlng]
                           ELSE InitialTooltip(latlng, rMode)
             /\ UNCHANGED tempLayer
  /\ mapLayers' =
       [temp    |-> IF Len(pointsRef) > 0
                    THEN mapLayers.temp + 1
                    ELSE mapLayers.temp,
        tooltip |-> mapLayers.tooltip + 1 - Removed(tooltip)]
  /\ lastOp' = "moveCursor"
  /\ lastLen' = Len(pointsRef)
  /\ UNCHANGED <<measureMode, distanceUnit, areaUnit, isMeasurePanelOpen,
                 points, pointsRef, finalShapes, markers, progressShape,
                 rMode, rDistanceUnit, rAreaUnit, pointsDirty, handlers, isMeasuring>>

\* Registered by the handler effect while its measureMode is not null.
handleMouseMove(latlng) ==
  /\ Settled
  /\ handlers > 0
  /\ LET allPoints == Append(pointsRef, latlng)
         value == IF rMode = "distance"
                  THEN formatDistance(turfLength(allPoints), rDistanceUnit)
                  ELSE formatArea(turfArea(allPoints), rAreaUnit)
     IN IF Len(pointsRef) > 0
        THEN /\ tempLayer' =
                  IF rMode = "distance"
                  THEN [kind |-> "polyline", pts |-> <<pointsRef[Len(pointsRef)], latlng>>]
                  ELSE [kind |-> "polygon", pts |-> allPoints]
             /\ tooltip' =
                  IF rMode = "distance" \/ Len(allPoints) > 2
                  THEN [kind |-> "value", latlng |-> latlng, label |-> value]
                  ELSE [kind |-> "more", latlng |-> latlng]
        ELSE /\ tooltip' = IF tooltip.kind # "none"
                           THEN [tooltip EXCEPT !.latlng = latlng]
                           ELSE InitialTooltip(latlng, rMode)
             /\ UNCHANGED tempLayer
  /\ mapLayers' =
       [temp    |-> IF Len(pointsRef) > 0
                    THEN mapLayers.temp - Removed(tempLayer) + 1
                    ELSE mapLayers.temp,
        tooltip |-> mapLayers.tooltip + 1 - Removed(tooltip)]
  /\ lastOp' = "moveCursor"
  /\ lastLen' = Len(pointsRef)
  /\ UNCHANGED <<measureMode, distanceUnit, areaUnit, isMeasurePanelOpen,
                 points, pointsRef, finalShapes, markers, progressShape,
                 rMode, rDistanceUnit, rAreaUnit, pointsDirty, handlers, isMeasuring>>

\* Variant: the click handler is registered whatever the mode.
handleSingleClick_AlwaysRegistered(latlng) ==
  /\ Settled
  /\ Len(pointsRef) < MaxPoints
  /\ pointsRef' = Append(pointsRef, latlng)
  /\ points' = pointsRef'
  /\ pointsDirty' = TRUE
  /\ lastOp' = "addPoint"
  /\ lastLen' = Len(pointsRef)
  /\ UNCHANGED <<measureMode, distanceUnit, areaUnit, isMeasurePanelOpen,
                 finalShapes, markers, progressShape, tempLayer, tooltip, mapLayers,
                 rMode, rDistanceUnit, rAreaUnit, handlers, isMeasuring>>

\* Variant: the position is pushed onto the ref but setPoints is not called.
handleSingleClick_RefOnly(latlng) ==
  /\ Settled
  /\ handlers > 0
  /\ Len(pointsRef) + handlers <= MaxPoints
  /\ pointsRef' = pointsRef \o [i \in 1..handlers |-> latlng]
  /\ lastOp' = "addPoint"
  /\ lastLen' = Len(pointsRef)
  /\ UNCHANGED <<measureMode, distanceUnit, areaUnit, isMeasurePanelOpen,
                 points, pointsDirty, finalShapes, markers, progressShape,
                 tempLayer, tooltip, mapLayers, rMode, rDistanceUnit, rAreaUnit, handlers, isMeasuring>>

\* One map click invokes every registered click handler, and each of them
\* pushes the position.  (The other map handlers leave the same state when
\* they are repeated.)
handleSingleClick(latlng) ==
  /\ Settled
  /\ handlers > 0
  /\ Len(pointsRef) + handlers <= MaxPoints
  /\ pointsRef' = pointsRef \o [i \in 1..handlers |-> latlng]
  /\ points' = pointsRef'
  /\ pointsDirty' = TRUE
  /\ lastOp' = "addPoint"
  /\ lastLen' = Len(pointsRef)
  /\ UNCHANGED <<measureMode, distanceUnit, areaUnit, isMeasurePanelOpen,
                 finalShapes, markers, progressShape, tempLayer, tooltip, mapLayers,
                 rMode, rDistanceUnit, rAreaUnit, handlers, isMeasuring>>

handleDoubleClick ==
  /\ Settled
  /\ handlers > 0
  /\ finalizeMeasurement(rMode, pointsRef, rDistanceUnit, rAreaUnit)
  /\ lastOp' = "dblclick"
  /\ lastLen' = Len(pointsRef)
  /\ UNCHANGED <<measureMode, distanceUnit, areaUnit, isMeasurePanelOpen,
                 rMode, rDistanceUnit, rAreaUnit, handlers, isMeasuring>>

handleRightClick ==
  /\ Settled
  /\ handlers > 0
  /\ clearInProgressMeasurement(rMode)
  /\ lastOp' = "rightClick"
  /\ lastLen' = Len(pointsRef)
  /\ UNCHANGED <<measureMode, distanceUnit, areaUnit, isMeasurePanelOpen,
                 finalShapes, markers, progressShape,
                 rMode, rDistanceUnit, rAreaUnit, handlers, isMeasuring>>

handleKeyDown ==
  /\ Settled
  /\ handlers > 0
  /\ clearInProgressMeasurement(rMode)
  /\ lastOp' = "escape"
  /\ lastLen' = Len(pointsRef)
  /\ UNCHANGED <<measureMode, distanceUnit, areaUnit, isMeasurePanelOpen,
                 finalShapes, markers, progressShape,
                 rMode, rDistanceUnit, rAreaUnit, handlers, isMeasuring>>

\* Variant: the click handler is bound to the features whatever isMeasuring.
featureClick_AlwaysBound(latlng) ==
  /\ Settled
  /\ lastOp' = "featureSelect"
  /\ lastLen' = Len(pointsRef)
  /\ UNCHANGED <<measureMode, distanceUnit, areaUnit, isMeasurePanelOpen,
                 points, pointsRef, finalShapes, markers, progressShape,
                 tempLayer, tooltip, mapLayers, rMode, rDistanceUnit,
                 rAreaUnit, pointsDirty, handlers, isMeasuring>>

\* A click on a feature of a GeoJSON layer.  onEachFeature binds the click
\* handler only when isMeasuring is false; that handler stops the event,
\* calls onFeatureSelect and opens the popup of the feature (lastOp records
\* that it ran; the selection is state of the parent).  With no handler on
\* the feature the event bubbles to the map and its click handlers.
featureClick(latlng) ==
  IF ~isMeasuring
  THEN /\ Settled
       /\ lastOp' = "featureSelect"
       /\ lastLen' = Len(pointsRef)
       /\ UNCHANGED <<measureMode, distanceUnit, areaUnit, isMeasurePanelOpen,
                      points, pointsRef, finalShapes, markers, progressShape,
                      tempLayer, tooltip, mapLayers, rMode, rDistanceUnit,
                      rAreaUnit, pointsDirty, handlers, isMeasuring>>
  ELSE handleSingleClick(latlng)

\* ------------------------------------------------------ render and effects
\* Dependencies of the handler effect differ from the last committed render.
HandlerDepsChanged ==
  \/ rMode # measureMode
  \/ rDistanceUnit # distanceUnit
  \/ rAreaUnit # areaUnit

\* Dependencies of the render effect differ from the last committed render.
RenderDepsChanged == pointsDirty \/ rMode # measureMode

\* Variant: the handler effect returns no cleanup.
CleanupRuns_Never == FALSE

\* The cleanup the handler effect returned; none when it returned early.
CleanupRuns == HandlerDepsChanged /\ rMode # "none"

\* Variant: the cleanup leaves the handlers registered.
CleanupUnregisters_Never == IF CleanupRuns THEN 0 ELSE 0

\* Handler sets the cleanup takes off the map (map.off).
CleanupUnregisters == IF CleanupRuns THEN 1 ELSE 0

\* Variant: the effect has no early return for a null mode.
EffectRegisters_Always == IF HandlerDepsChanged THEN 1 ELSE 0

\* Handler sets the re-run effect puts on the map (map.on).
EffectRegisters == IF HandlerDepsChanged /\ measureMode # "none" THEN 1 ELSE 0

\* Variant: the key of the GeoJSON layer does not include isMeasuring.
GeoJsonRemounts_KeyWithoutMode == FALSE

\* The key of the GeoJSON layer changes with isMeasuring = !!measureMode, so
\* the layer is created again and onEachFeature runs with the new value.
GeoJsonRemounts == isMeasuring # (measureMode # "none")

\* One render of MapWrapper and MapControls with the effect cleanups and
\* effects.
Commit ==
  /\ ~Settled
  /\ IF CleanupRuns
     THEN \* map.off..., tooltip removed, clearInProgressMeasurement()
          /\ tooltip' = NoLayer
          /\ tempLayer' = NoLayer
          /\ mapLayers' = [temp    |-> mapLayers.temp - Removed(tempLayer),
                           tooltip |-> mapLayers.tooltip - Removed(tooltip)]
          /\ pointsRef' = <<>>
          /\ points' = <<>>
          /\ pointsDirty' = TRUE
     ELSE /\ pointsDirty' = FALSE
          /\ UNCHANGED <<tooltip, tempLayer, mapLayers, pointsRef, points>>
  /\ rMode' = measureMode
  /\ rDistanceUnit' = distanceUnit
  /\ rAreaUnit' = areaUnit
  /\ handlers' = handlers - CleanupUnregisters + EffectRegisters
  /\ isMeasuring' = IF GeoJsonRemounts THEN (measureMode # "none") ELSE isMeasuring
  /\ IF RenderDepsChanged
     THEN \* clearLayers(), then the markers and the shape of `points`
          /\ finalShapes' = <<>>
          /\ markers' = points
          /\ progressShape' =
               IF Len(points) > 1 /\ measureMode = "distance" THEN "polyline"
               ELSE IF Len(points) > 1 /\ measureMode = "area" THEN "polygon"
               ELSE "none"
     ELSE UNCHANGED <<finalShapes, markers, progressShape>>
  /\ UNCHANGED <<measureMode, distanceUnit, areaUnit, isMeasurePanelOpen, lastOp, lastLen>>

Next ==
  \/ toggleMeasurePanel
  \/ \E mode \in Modes : handleMeasureButtonClick(mode)
  \/ clearAllButton
  \/ \E key \in DistanceUnit \cup AreaUnit : unitSelectorClick(key)
  \/ \E latlng \in Points : handleMouseMove(latlng)
  \/ \E latlng \in Points : handleSingleClick(latlng)
  \/ handleDoubleClick
  \/ handleRightClick
  \/ handleKeyDown
  \/ \E latlng \in Points : featureClick(latlng)
  \/ Commit

Spec == Init /\ [][Next]_vars

\* Every pending render is eventually committed (React flushes its work).
FairSpec == Spec /\ WF_vars(Commit)

\* ================================================================ claims
IsPrefix(s, t) == Len(s) <= Len(t) /\ SubSeq(t, 1, Len(s)) = s

CancelOps == {"rightClick", "escape"}

FinalizeOps == {"dblclick", "buttonFinalize"}

\* The captured points with the last one removed when it repeats the one
\* before it.
Deduplicated(s) ==
  IF Len(s) >= 2 /\ s[Len(s)] = s[Len(s) - 1] THEN SubSeq(s, 1, Len(s) - 1) ELSE s

MinimumOf(mode) == IF mode = "distance" THEN 2 ELSE 3

\* C1: a finalized measurement is destroyed only by clearAll or deactivate:
\* every step of any other transition, the render effects it schedules
\* included, keeps every measurement that was in the finalized set.
C1_DestroyedOnlyByClearAll ==
  [][lastOp' \notin {"clearAll", "deactivate"} => IsPrefix(finalShapes, finalShapes')]_vars

C3_FinalizeBelowMinimumNoOp ==
  [][(/\ Settled
      /\ lastOp' \in FinalizeOps \cup {"buttonIgnored"}
      /\ measureMode # "none"
      /\ Len(Deduplicated(pointsRef)) < MinimumOf(measureMode))
     => (/\ pointsRef' = pointsRef
         /\ points' = points
         /\ finalShapes' = finalShapes
         /\ measureMode' = measureMode
         /\ rMode' = measureMode
         /\ Settled')]_vars

\* C3 witness: a double-click on the first position of a distance left both
\* of its points in place.
C3_Witness ==
  /\ lastOp = "dblclick"
  /\ measureMode = "distance"
  /\ Len(pointsRef) = 2
  /\ pointsRef[1] = pointsRef[2]
  /\ finalShapes = <<>>
  /\ Settled

\* C4: with no active mode and every effect run, no point is captured.
C4_NoPointsWhenInactive ==
  (measureMode = "none" /\ Settled) => (pointsRef = <<>> /\ points = <<>>)

\* C4 witness: the panel was closed in the middle of a capture.
C4_Witness ==
  /\ measureMode = "none"
  /\ Settled
  /\ lastOp = "deactivate"
  /\ lastLen >= 2
  /\ pointsRef = <<>>

\* C5: cancelInProgress empties capturedPoints and the preview, and neither
\* the cancel nor the render it schedules changes the mode or the finalized
\* set.
C5_CancelFrame ==
  [][(lastOp' \in CancelOps)
     => (/\ pointsRef' = <<>>
         /\ points' = <<>>
         /\ tempLayer' = NoLayer
         /\ measureMode' = measureMode
         /\ finalShapes' = finalShapes)]_vars

\* C5 witness: Escape or right-click has discarded captured points whose
\* markers are still to be removed by the render.
C5_Witness ==
  /\ lastOp \in CancelOps
  /\ lastLen >= 1
  /\ markers # <<>>
  /\ pointsRef = <<>>
  /\ tempLayer = NoLayer
  /\ measureMode # "none"

SessionState ==
  <<measureMode, pointsRef, points, finalShapes, markers, progressShape,
    tempLayer, tooltip.kind>>

\* C6: a cancel issued with no captured point (as after a previous cancel)
\* changes nothing of the session state, in the handler and in the render
\* that follows it.
C6_CancelIdempotent ==
  [][(lastOp' \in CancelOps /\ lastLen' = 0) => SessionState' = SessionState]_vars

\* C6 witness: a second cancel in a row has run and settled.
C6_Witness ==
  /\ lastOp \in CancelOps
  /\ lastLen = 0
  /\ Settled
  /\ tooltip.kind = "initial"

\* C7: pressing the button of the other mode discards the points in progress:
\* from the press until the next input the new mode is active, capturedPoints
\* is empty and no finalized measurement exists.
C7_SwitchDiscards ==
  [][(lastOp' = "activate")
     => (/\ measureMode' \in Modes
         /\ (Settled => measureMode' # measureMode)
         /\ pointsRef' = <<>>
         /\ points' = <<>>
         /\ Len(finalShapes') <= Len(finalShapes))]_vars

\* C7 witness: area became active over a distance capture of two points.
C7_Witness ==
  /\ lastOp = "activate"
  /\ lastLen >= 2
  /\ measureMode = "area"
  /\ rMode = "distance"
  /\ pointsRef = <<>>

\* C8: clearAll leaves the finalized set and capturedPoints empty and keeps
\* the mode.
C8_ClearAll ==
  [][(lastOp' = "clearAll")
     => (/\ finalShapes' = <<>>
         /\ pointsRef' = <<>>
         /\ points' = <<>>
         /\ measureMode' = measureMode)]_vars

\* C8 witness: clearAll ran in the middle of a capture and settled.
C8_Witness ==
  /\ lastOp = "clearAll"
  /\ lastLen >= 1
  /\ measureMode # "none"
  /\ Settled

\* C9: closing the panel ends with no mode, no captured point and no
\* finalized measurement, whatever was in progress.
C9_Deactivate ==
  [][(lastOp' = "deactivate")
     => (/\ measureMode' = "none"
         /\ pointsRef' = <<>>
         /\ points' = <<>>
         /\ finalShapes' = <<>>)]_vars

\* C9 witness: the panel was closed over an area capture of three points.
C9_Witness ==
  /\ lastOp = "deactivate"
  /\ lastLen >= 3
  /\ rMode = "area"
  /\ measureMode = "none"
  /\ finalShapes = <<>>

\* C10: changing the display unit changes neither the mode, nor
\* capturedPoints, nor the finalized set, in the handler and in the render
\* that follows it.
C10_UnitChangeIsPureRender ==
  [][(lastOp' = "setUnit")
     => (/\ measureMode' = measureMode
         /\ pointsRef' = pointsRef
         /\ points' = points
         /\ finalShapes' = finalShapes)]_vars

\* The label a measurement shows when its value is formatted in the units
\* selected now.
LabelInCurrentUnit(m) ==
  IF m.mode = "distance" THEN formatDistance(turfLength(m.pts), distanceUnit)
  ELSE formatArea(turfArea(m.pts), areaUnit)

ButtonOps == {"buttonFinalize", "buttonIgnored", "activate"}

\* C13: the button of the active mode finalizes when capturedPoints has the
\* mode's minimum count and changes nothing otherwise; the button of another
\* mode (or any button while inactive) activates that mode.
C13_TogglePolicy ==
  [][(Settled /\ lastOp' \in ButtonOps)
     => \/ /\ measureMode' = measureMode
           /\ measureMode # "none"
           /\ IF Len(pointsRef) >= MinimumOf(measureMode)
                 /\ Len(Deduplicated(pointsRef)) >= MinimumOf(measureMode)
              THEN /\ Len(finalShapes') = Len(finalShapes) + 1
                   /\ IsPrefix(finalShapes, finalShapes')
                   /\ finalShapes'[Len(finalShapes')].pts = Deduplicated(pointsRef)
                   /\ pointsRef' = <<>>
              ELSE /\ pointsRef' = pointsRef
                   /\ points' = points
                   /\ finalShapes' = finalShapes
        \/ /\ measureMode' # measureMode
           /\ measureMode' \in Modes
           /\ pointsRef' = <<>>
           /\ points' = <<>>
           /\ finalShapes' = <<>>]_vars

\* C13 witness: the button of the active mode has finalized a distance.
C13_Witness ==
  /\ lastOp = "buttonFinalize"
  /\ lastLen = 2
  /\ measureMode = "distance"
  /\ Len(finalShapes) = 1
  /\ pointsRef = <<>>

EndsWithTwoEqual(s) == Len(s) >= 2 /\ s[Len(s)] = s[Len(s) - 1]

EndsWithThreeEqual(s) ==
  Len(s) >= 3 /\ s[Len(s)] = s[Len(s) - 1] /\ s[Len(s) - 1] = s[Len(s) - 2]

Front(s) == SubSeq(s, 1, Len(s) - 1)

\* C14: a created measurement holds capturedPoints without its last element if
\* and only if the last two captured points are equal, and capturedPoints
\* itself otherwise; no step removes points from capturedPoints except by
\* emptying it.
C14_LastTwoDedupeOnly ==
  [][/\ (Len(finalShapes') > Len(finalShapes))
          => /\ EndsWithTwoEqual(pointsRef)
                  => finalShapes'[Len(finalShapes')].pts = Front(pointsRef)
             /\ ~EndsWithTwoEqual(pointsRef)
                  => finalShapes'[Len(finalShapes')].pts = pointsRef
     /\ \/ pointsRef' = pointsRef
        \/ pointsRef' = <<>>
        \/ Len(pointsRef') = Len(pointsRef) + 1 /\ IsPrefix(pointsRef, pointsRef')]_vars

\* C14 witness: of two pairs of equal points only the last point was dropped.
C14_Witness ==
  /\ lastOp \in FinalizeOps
  /\ lastLen = 4
  /\ Len(finalShapes) = 1
  /\ Len(finalShapes[1].pts) = 3
  /\ finalShapes[1].pts[1] = finalShapes[1].pts[2]
  /\ finalShapes[1].pts[2] # finalShapes[1].pts[3]

\* C15 as claimed: a measurement created by the dblclick that follows a click
\* never ends with two equal points.
C15_DoubleClickEndsOnce ==
  [][(/\ lastOp = "addPoint"
      /\ lastOp' = "dblclick"
      /\ Len(finalShapes') > Len(finalShapes))
     => ~EndsWithTwoEqual(finalShapes'[Len(finalShapes')].pts)]_vars

\* C15 amended: a measurement created by the dblclick that follows a click
\* ends with two equal points exactly when the captured points, the clicks of
\* the double-click included, ended with three equal points.
C15_DoubleClickDropsOne ==
  [][(/\ lastOp = "addPoint"
      /\ lastOp' = "dblclick"
      /\ Len(finalShapes') > Len(finalShapes))
     => (EndsWithTwoEqual(finalShapes'[Len(finalShapes')].pts)
           <=> EndsWithThreeEqual(pointsRef))]_vars

\* C15 witness: a double-click that followed a click on the same position has
\* finalized a distance made of that position twice.
C15_Witness ==
  /\ lastOp = "dblclick"
  /\ lastLen = 3
  /\ measureMode = "distance"
  /\ Len(finalShapes) = 1
  /\ finalShapes[1].pts = <<finalShapes[1].pts[1], finalShapes[1].pts[1]>>

\* C16: every finalized measurement has at least 2 points when it is a
\* distance and at least 3 when it is an area.
C16_FinalizedMinimumPoints ==
  \A i \in 1..Len(finalShapes) :
    Len(finalShapes[i].pts) >= (IF finalShapes[i].mode = "distance" THEN 2 ELSE 3)

\* C16 witness: the mode button has finalized an area of exactly three points.
C16_Witness ==
  /\ lastOp = "buttonFinalize"
  /\ Len(finalShapes) = 1
  /\ finalShapes[1].mode = "area"
  /\ Len(finalShapes[1].pts) = 3
  /\ lastLen = 3

\* C17: a pointer move changes neither capturedPoints nor the finalized set;
\* only the preview layer and the floating tooltip change.
C17_MoveCursorFrame ==
  [][(lastOp' = "moveCursor")
     => UNCHANGED <<measureMode, distanceUnit, areaUnit, isMeasurePanelOpen,
                    points, pointsRef, finalShapes, markers, progressShape,
                    rMode, rDistanceUnit, rAreaUnit, pointsDirty, handlers>>]_vars

\* C17 witness: a pointer move has drawn the preview of a capture in progress.
C17_Witness ==
  /\ lastOp = "moveCursor"
  /\ Len(pointsRef) = 2
  /\ tempLayer.kind = "polygon"
  /\ tooltip.kind = "value"

MapOps == {"moveCursor", "addPoint", "dblclick", "rightClick", "escape"}

\* C18: exactly one handler set is registered while a mode is active, however
\* often the effect has re-run, and each handled click appends exactly one
\* point at the end of capturedPoints.
C18_ClickAppendsOne ==
  [][/\ handlers' <= 1
     /\ (Settled' /\ measureMode' # "none") => handlers' = 1
     /\ (lastOp' = "addPoint" /\ Settled)
          => /\ Len(pointsRef') = Len(pointsRef) + 1
             /\ IsPrefix(pointsRef, pointsRef')
             /\ points' = pointsRef']_vars

\* C18 witness: a click was handled after the handlers had been registered
\* again for another unit and another mode, on top of earlier points.
C18_Witness ==
  /\ lastOp = "addPoint"
  /\ measureMode = "area"
  /\ areaUnit = "ha"
  /\ distanceUnit = "ft"
  /\ lastLen = 3
  /\ Len(pointsRef) = 4

\* C19: while no mode is active and the effects have run, no handler is
\* registered, so no map event is handled; capturedPoints, the finalized set,
\* the preview and the tooltip do not change, and only a mode button makes a
\* mode active.
C19_InactiveIgnoresMap ==
  [][(measureMode = "none" /\ Settled)
     => /\ handlers = 0
        /\ lastOp' \notin MapOps
        /\ pointsRef' = pointsRef
        /\ finalShapes' = finalShapes
        /\ tempLayer' = tempLayer
        /\ tooltip' = tooltip
        /\ (measureMode' # "none" => lastOp' = "activate")]_vars

\* C19 witness: inactive again after a capture, with the panel open and its
\* clear-all button pressed.
C19_Witness ==
  /\ measureMode = "none"
  /\ Settled
  /\ isMeasurePanelOpen
  /\ lastOp = "clearAll"
  /\ handlers = 0

NoInProgressArtifact ==
  /\ tempLayer = NoLayer
  /\ markers = <<>>
  /\ progressShape = "none"

\* C20: once the render has run, a cancel leaves no preview layer and no point
\* marker, clearAll leaves no finalized shape either, and deactivate also
\* removes the tooltip: nothing of the measurement is on the map while
\* inactive.
C20_OverlayTracksSession ==
  /\ (Settled /\ lastOp \in CancelOps) => NoInProgressArtifact
  /\ (Settled /\ lastOp = "clearAll") => (NoInProgressArtifact /\ finalShapes = <<>>)
  /\ (Settled /\ (lastOp = "deactivate" \/ measureMode = "none"))
       => (NoInProgressArtifact /\ finalShapes = <<>> /\ tooltip = NoLayer)

\* C20 witness: the panel was closed over a capture in progress and the map
\* carries nothing of it.
C20_Witness ==
  /\ Settled
  /\ lastOp = "deactivate"
  /\ lastLen >= 1
  /\ ~isMeasurePanelOpen
  /\ markers = <<>>
  /\ tooltip = NoLayer
  /\ tempLayer = NoLayer

ClearingOps == CancelOps \cup {"clearAll", "deactivate"}

\* C21: once the render effect has run for the latest state, the overlay
\* holds one point marker per captured point, in the order of capture, none
\* after a cancel, clearAll, deactivate or a finalize that created a
\* measurement, and the points state that was rendered equals pointsRef.
C21_MarkersTrackPoints ==
  Settled =>
    /\ Len(markers) = Len(pointsRef)
    /\ markers = pointsRef
    /\ points = pointsRef
    /\ (lastOp \in ClearingOps) => markers = <<>>
    /\ (lastOp \in FinalizeOps /\ Len(pointsRef) < lastLen) => markers = <<>>

\* C21 witness: the render that followed the third click has drawn three
\* markers.
C21_Witness ==
  /\ Settled
  /\ lastOp = "addPoint"
  /\ lastLen = 2
  /\ Len(markers) = 3
  /\ markers = pointsRef

\* The value of the captured points followed by the cursor position, in the
\* unit selected for the active mode.
LiveValue(cursor) ==
  IF measureMode = "distance"
  THEN formatDistance(turfLength(Append(pointsRef, cursor)), distanceUnit)
  ELSE formatArea(turfArea(Append(pointsRef, cursor)), areaUnit)

\* C22: after a pointer move over n captured points the floating label shows
\* the value of the captured points followed by the cursor, in the current
\* unit, exactly when n + 1 reaches the minimum of the mode; otherwise it
\* shows the start prompt of the mode (n = 0) or the request for more points
\* (area, n = 1).
C22_LivePreview ==
  [][(lastOp' = "moveCursor")
     => /\ tooltip'.kind \in {"value", "initial", "more"}
        /\ (tooltip'.kind = "value")
             <=> (Len(pointsRef) + 1 >= MinimumOf(measureMode))
        /\ (tooltip'.kind = "value")
             => tooltip'.label = LiveValue(tooltip'.latlng)
        /\ (tooltip'.kind = "initial")
             <=> (Len(pointsRef) = 0)
        /\ (tooltip'.kind = "initial") => tooltip'.mode = measureMode
        /\ (tooltip'.kind = "more")
             <=> (measureMode = "area" /\ Len(pointsRef) = 1)]_vars

\* C22 witness: the pointer moved over two captured points of an area and the
\* label shows a value in hectares.
C22_Witness ==
  /\ lastOp = "moveCursor"
  /\ measureMode = "area"
  /\ Len(pointsRef) = 2
  /\ tooltip.kind = "value"
  /\ tooltip.label.unit = "ha"
  /\ tooltip.label.val > 0

SessionOps == FinalizeOps \cup CancelOps \cup {"buttonIgnored", "clearAll", "activate"}

\* C23: a unit selection changes the unit of the active mode's kind only,
\* and finalize, cancel, clearAll and activate, with the renders they
\* schedule, change neither distanceUnit nor areaUnit.
C23_UnitsIndependent ==
  [][/\ (lastOp' = "setUnit" /\ measureMode = "distance") => areaUnit' = areaUnit
     /\ (lastOp' = "setUnit" /\ measureMode = "area") => distanceUnit' = distanceUnit
     /\ (lastOp' \in SessionOps)
          => (distanceUnit' = distanceUnit /\ areaUnit' = areaUnit)]_vars

\* C23 witness: with miles and hectares selected, an area was finalized and
\* both selections are still in place.
C23_Witness ==
  /\ lastOp \in FinalizeOps
  /\ lastLen >= 3
  /\ pointsRef = <<>>
  /\ measureMode = "area"
  /\ distanceUnit = "mi"
  /\ areaUnit = "ha"
  /\ Settled

\* The factors and decimals of the unit tables as the specification lists
\* them: factor * 10^dec = num / scale.
ListedUnits ==
  [m     |-> [num |-> 1,      scale |-> 1,        dec |-> 0],
   km    |-> [num |-> 1,      scale |-> 10,       dec |-> 2],
   ft    |-> [num |-> 328084, scale |-> 100000,   dec |-> 0],
   mi    |-> [num |-> 621371, scale |-> 10000000, dec |-> 2],
   m2    |-> [num |-> 1,      scale |-> 1,        dec |-> 0],
   km2   |-> [num |-> 1,      scale |-> 1000,     dec |-> 3],
   ha    |-> [num |-> 1,      scale |-> 10,       dec |-> 3],
   ft2   |-> [num |-> 107639, scale |-> 10000,    dec |-> 0],
   acres |-> [num |-> 247105, scale |-> 1000000,  dec |-> 3]]

\* label shows raw times the listed factor of unit u, rounded to the listed
\* decimals of u (val is a nearest integer to raw * factor * 10^dec), with
\* the symbol u.
IsConverted(label, raw, u) ==
  /\ label.unit = u
  /\ label.dec = ListedUnits[u].dec
  /\ 2 * Abs(label.val * ListedUnits[u].scale - raw * ListedUnits[u].num)
       <= ListedUnits[u].scale

\* C24: every label the tool produces, on a finalized measurement or in the
\* live preview, is the raw value in base units times the listed factor of
\* the selected unit, rounded to the unit's listed decimals and followed by
\* the unit symbol.
C24_UnitConversion ==
  [][/\ (Len(finalShapes') > Len(finalShapes))
          => LET s == finalShapes'[Len(finalShapes')]
             IN IF s.mode = "distance"
                THEN IsConverted(s.label, turfLength(s.pts), distanceUnit)
                ELSE IsConverted(s.label, turfArea(s.pts), areaUnit)
     /\ (lastOp' = "moveCursor" /\ tooltip'.kind = "value")
          => LET all == Append(pointsRef, tooltip'.latlng)
             IN IF measureMode = "distance"
                THEN IsConverted(tooltip'.label, turfLength(all), distanceUnit)
                ELSE IsConverted(tooltip'.label, turfArea(all), areaUnit)]_vars

\* C24 witness: a distance of more than two grid steps was finalized in feet,
\* with more than three feet to the metre on its label.
C24_Witness ==
  /\ lastOp \in FinalizeOps
  /\ Len(finalShapes) = 1
  /\ finalShapes[1].mode = "distance"
  /\ distanceUnit = "ft"
  /\ finalShapes[1].label.unit = "ft"
  /\ turfLength(finalShapes[1].pts) > 2 * GridStep
  /\ finalShapes[1].label.val > 3 * turfLength(finalShapes[1].pts)

RawValue(mode, pts) == IF mode = "distance" THEN turfLength(pts) ELSE turfArea(pts)

Reverse(s) == [i \in 1..Len(s) |-> s[Len(s) + 1 - i]]

\* s started at its element k + 1, the first k elements moved to the end.
Rotate(s, k) == SubSeq(s, k + 1, Len(s)) \o SubSeq(s, 1, k)

Positions(s) == {s[i] : i \in 1..Len(s)}

PairwiseDistinct(s) == Cardinality(Positions(s)) = Len(s)

\* C27 as claimed: every finalized distance has at least 2 distinct positions
\* among its points and every finalized area at least 3.
C27_FinalizedVerticesDistinct ==
  \A i \in 1..Len(finalShapes) :
    Cardinality(Positions(finalShapes[i].pts)) >= MinimumOf(finalShapes[i].mode)

\* C27 amended: a created measurement has at least 2 points (distance) or 3
\* points (area) counted with their repetitions, holds the same positions as
\* the captured points, and its points are pairwise distinct exactly when the
\* captured points without a repeated last point were.
C27_FinalizedKeepsRepeats ==
  [][(Len(finalShapes') > Len(finalShapes))
     => LET s == finalShapes'[Len(finalShapes')]
        IN /\ Len(s.pts) >= MinimumOf(s.mode)
           /\ Positions(s.pts) = Positions(pointsRef)
           /\ PairwiseDistinct(s.pts) <=> PairwiseDistinct(Deduplicated(pointsRef))]_vars

\* C27 witness: after a double-click whose finalize did nothing, a second
\* double-click on the same position finalized a distance of one position
\* three times.
C27_Witness ==
  /\ lastOp = "dblclick"
  /\ lastLen = 4
  /\ measureMode = "distance"
  /\ Len(finalShapes) = 1
  /\ Len(finalShapes[1].pts) = 3
  /\ Cardinality(Positions(finalShapes[1].pts)) = 1

\* C28: the map carries one dashed preview layer exactly when tempLayerRef
\* holds one and none otherwise, and one measurement tooltip exactly when
\* tooltipRef holds one and none otherwise: never two, and never a layer that
\* no ref holds.
C28_NoOrphanLayers ==
  /\ mapLayers.temp = (IF tempLayer = NoLayer THEN 0 ELSE 1)
  /\ mapLayers.tooltip = (IF tooltip = NoLayer THEN 0 ELSE 1)

\* C28 witness: a pointer move over three captured points of an area has its
\* preview ring on the map, next to the tooltip.
C28_Witness ==
  /\ lastOp = "moveCursor"
  /\ Len(pointsRef) = 3
  /\ tempLayer.kind = "polygon"
  /\ Len(tempLayer.pts) = 4
  /\ mapLayers = [temp |-> 1, tooltip |-> 1]

\* C29: a mode is active only while the measurement panel is open, and the
\* only step that takes an active mode back to none is the closing of the
\* panel.
C29_ModeNeedsPanel ==
  [][/\ ~isMeasurePanelOpen => measureMode = "none"
     /\ ~isMeasurePanelOpen' => measureMode' = "none"
     /\ (measureMode # "none" /\ measureMode' = "none")
          => (lastOp' = "deactivate" /\ isMeasurePanelOpen /\ ~isMeasurePanelOpen')]_vars

\* C29 witness: the panel has just been closed over an active distance mode,
\* whose handlers are still to be taken off by the render.
C29_Witness ==
  /\ ~isMeasurePanelOpen
  /\ measureMode = "none"
  /\ lastOp = "deactivate"
  /\ rMode = "distance"
  /\ handlers = 1

\* C30: the click handler of a feature, which calls onFeatureSelect and opens
\* the popup, runs only while no mode is active, and then nothing of the
\* measurement changes (the click does not reach the map); while a mode is
\* active the GeoJSON layers carry no click handler, so that a click on a
\* feature is a click on the map.
C30_SelectionSuppressed ==
  [][/\ (measureMode # "none" /\ Settled) => isMeasuring
     /\ (measureMode = "none" /\ Settled) => ~isMeasuring
     /\ (measureMode # "none") => lastOp' # "featureSelect"
     /\ (lastOp' = "featureSelect")
          => UNCHANGED <<measureMode, points, pointsRef, pointsDirty, finalShapes,
                         markers, progressShape, tempLayer, tooltip, mapLayers>>]_vars

\* C30 witness: a feature was clicked and selected while the panel was open
\* with no mode active.
C30_Witness ==
  /\ lastOp = "featureSelect"
  /\ isMeasurePanelOpen
  /\ measureMode = "none"
  /\ ~isMeasuring
  /\ Settled

====
